---- MODULE Spec2Model ----
(***************************************************************************)
(* Model of python-server/EmotionDetectionServer.py: the                   *)
(* EmotionDetectionServer object, its request handlers (one thread per     *)
(* request), the detection_loop threads it spawns, and main().             *)
(*                                                                         *)
(* Five specifications:                                                    *)
(*   Spec      the object under concurrent requests to its four routes,    *)
(*             two request threads and one detection thread at a time;     *)
(*   SpecLoops the same with one request thread and MaxLoops detection     *)
(*             threads;                                                    *)
(*   SpecHang  one request thread that runs whenever it can and one        *)
(*             detection thread of which nothing is assumed;               *)
(*   SpecMain  main(): the automatic start, run_server, shutdown;          *)
(*   SpecFrame initialize_face_cascade and process_frame called one after  *)
(*             the other, with the inputs and outputs of each call kept.   *)
(*                                                                         *)
(* Abstractions: the 'timestamp' of a reading is left out; time.time() is  *)
(* a counter of successful detections; a cv2.VideoCapture object is "open" *)
(* or "closed" (isOpened() false: never opened, or released).  A step of a *)
(* thread is one access to the shared state together with the local        *)
(* computation that follows it.                                            *)
(* Two history variables record what the code does not keep: whether a     *)
(* camera has ever opened, and for each detection thread whether it was    *)
(* alive at a stop and how many iterations it skipped in a row.            *)
(***************************************************************************)
EXTENDS Integers, Sequences, FiniteSets, TLC

\* ------------------------------------------------------------------ bounds
MaxLoops == 2
MaxFaces == 2
MaxDetections == 1
MaxCount == 4

\* --------------------------------------------------------------- constants
process_every_n_frames == 3
port == 5001
fallback_port == 5002

Handlers == {"h1", "h2"}
Main == "main"
Threads == Handlers \cup {Main}
Loops == 1..MaxLoops

VARIABLES
    cap,                       \* self.cap: "None" | "closed" | "open"
    face_cascade,              \* self.face_cascade: "None" | "empty" | "loaded"
    detection_running,         \* self.detection_running
    camera_lock,               \* holder of self.camera_lock, or "free"
    data_lock,                 \* holder of self.data_lock, or "free"
    current_emotion_data,      \* self.current_emotion_data
    frame_skip_count,          \* self.frame_skip_count
    last_successful_detection, \* self.last_successful_detection
    server,                    \* run_server: what app.run met, what came of it
    pc,                        \* position of each request thread and of main
    cam,                       \* get_status: the local camera_status
    out,                       \* the value the last step returned, if any
    lpc,                       \* position of each detection_loop thread
    loc,                       \* locals of each detection_loop iteration
    probe,                     \* SpecFrame: the last call, its inputs and outputs
    conf,                      \* the threads followed: request threads, loop slots
    opened,                    \* history: cv2.VideoCapture(0) has given an open handle
    hist                       \* history of each detection thread: alive at a stop,
                               \* iterations skipped in a row

vars == <<cap, face_cascade, detection_running, camera_lock, data_lock,
          current_emotion_data, frame_skip_count, last_successful_detection,
          server, pc, cam, out, lpc, loc, probe, conf, opened, hist>>

shared == <<cap, face_cascade, detection_running, camera_lock, data_lock,
            current_emotion_data, frame_skip_count, last_successful_detection>>

\* ---------------------------------------------------------------- readings
Labels == {"happy", "sad"}

\* A numpy scalar as DeepFace returns it.
NpFloat(v) == [dtype |-> "float32", item |-> v]

\* DeepFace.analyze(...)[0] for the two faces the model knows.
Results ==
    { [emotion |-> [l \in Labels |-> NpFloat(IF l = "happy" THEN 81 ELSE 3)],
       dominant_emotion |-> "happy"],
      [emotion |-> [l \in Labels |-> NpFloat(IF l = "happy" THEN 10 ELSE 90)],
       dominant_emotion |-> "sad"] }

\* convert_numpy_types on an np.floating
ConvertNumpyScalar(obj) == obj.item

\* convert_numpy_types on a dict of np.floating
ConvertNumpyDict(obj) == [key \in DOMAIN obj |-> ConvertNumpyScalar(obj[key])]

InitReading ==
    [emotion |-> "unknown", confidence |-> 0, faces_detected |-> 0]

NoFaceReading ==
    [emotion |-> "no_face", confidence |-> 0, faces_detected |-> 0]

ErrorReading(e) ==
    [emotion |-> "error", confidence |-> 0, faces_detected |-> 0, error |-> e]

\* Mutant: faces_detected counts the faces besides the one analysed.
SuccessReadingOthers(result, faces) ==
    [emotion |-> result.dominant_emotion,
     confidence |-> ConvertNumpyScalar(result.emotion[result.dominant_emotion]),
     faces_detected |-> Len(faces) - 1,
     emotion_scores |-> ConvertNumpyDict(result.emotion)]

SuccessReading(result, faces) ==
    [emotion |-> result.dominant_emotion,
     confidence |-> ConvertNumpyScalar(result.emotion[result.dominant_emotion]),
     faces_detected |-> Len(faces),
     emotion_scores |-> ConvertNumpyDict(result.emotion)]

\* ------------------------------------------------------------------- faces
\* Regions <<x, y, w, h>> of detectMultiScale; two of them have equal areas.
Regions == { <<0, 0, 2, 2>>, <<3, 0, 3, 2>>, <<0, 3, 2, 3>> }

FaceLists == UNION { [1..n -> Regions] : n \in 0..MaxFaces }

Area(face) == face[3] * face[4]

\* max(faces, key=...) keeps the first of the maxima.
RECURSIVE MaxFrom(_, _, _)
MaxFrom(faces, i, best) ==
    IF i > Len(faces) THEN best
    ELSE MaxFrom(faces, i + 1,
                 IF Area(faces[i]) > Area(best) THEN faces[i] ELSE best)

\* Mutant: the last of the maxima is kept.
RECURSIVE MaxFromLast(_, _, _)
MaxFromLast(faces, i, best) ==
    IF i > Len(faces) THEN best
    ELSE MaxFromLast(faces, i + 1,
                     IF Area(faces[i]) >= Area(best) THEN faces[i] ELSE best)

LargestFaceLast(faces) == MaxFromLast(faces, 2, faces[1])

LargestFace(faces) == MaxFrom(faces, 2, faces[1])

\* ------------------------------------------------------------ process_frame
\* str(e) of an exception: some carry no text (MemoryError(), an assert)
ExceptionTexts == {"", "failed"}

\* cvtColor and detectMultiScale give a list of regions or raise
DetectOutcomes ==
    {[raised |-> TRUE, text |-> x, faces |-> << >>] : x \in ExceptionTexts}
        \cup {[raised |-> FALSE, text |-> "", faces |-> f] : f \in FaceLists}

NoResult == [dominant_emotion |-> "none"]

\* DeepFace.analyze raises, gives an empty result, or gives a result
ClassifyOutcomes ==
    {[kind |-> "raise", text |-> x, result |-> NoResult] : x \in ExceptionTexts}
        \cup {[kind |-> "empty", text |-> "", result |-> NoResult]}
        \cup {[kind |-> "ok", text |-> "", result |-> r] : r \in Results}

\* No assignment to self.current_emotion_data
NoPending == [emotion |-> "none"]

\* Mutant: the 'except' branch keeps the placeholder emotion.
OnExceptionUnknown(e) ==
    [emotion |-> "unknown", confidence |-> 0, faces_detected |-> 0, error |-> e]

\* An exception inside process_frame ends in its 'except' branch.
OnException(e) == ErrorReading(e)

\* Mutant: the test for an empty list is left out.
NoFacesNever(faces) == FALSE

\* 'if len(faces) == 0:'
NoFaces(faces) == Len(faces) = 0

\* 'largest_face = max(...)' up to the assignment of the reading
Classify(faces, c) ==
    IF Len(faces) = 0
    THEN [reading |-> OnException("max() arg is an empty sequence"),
          called |-> FALSE, region |-> << >>]
    ELSE LET region == LargestFace(faces) IN
         [reading |-> CASE c.kind = "raise" -> OnException(c.text)
                        [] c.kind = "empty" -> NoPending
                        [] OTHER -> SuccessReading(c.result, faces),
          called |-> TRUE, region |-> region]

\* process_frame up to the assignment: the reading it is about to assign,
\* whether DeepFace.analyze was called, and on which region
ProcessFrame(d, c) ==
    IF d.raised
    THEN [reading |-> OnException(d.text),
          called |-> FALSE, region |-> << >>]
    ELSE IF NoFaces(d.faces)
         THEN [reading |-> NoFaceReading, called |-> FALSE, region |-> << >>]
         ELSE Classify(d.faces, c)

\* What the frame held, as the two libraries saw it
InputKind(d, c) ==
    IF d.raised THEN "detect_raise"
    ELSE IF Len(d.faces) = 0 THEN "no_faces"
    ELSE c.kind

\* Mutant: the dict is updated in place, key by key, instead of replaced.
ReplaceUpdate(old, new) ==
    [k \in DOMAIN old \cup DOMAIN new |->
        IF k \in DOMAIN new THEN new[k] ELSE old[k]]

\* 'self.current_emotion_data = {...}'
Replace(old, new) == new

\* ------------------------------------------------------------------- state
NoLoc == [tmp |-> 0, input |-> "none", pending |-> NoPending]

NoOut == [op |-> "none"]

NoProbe == [call |-> "none"]

\* No detection thread was alive at a stop; a new thread may capture at once.
NoHist == [stale |-> {}, skipped |-> [l \in Loops |-> process_every_n_frames - 1]]

\* Detection thread l has ended.
Ended(h, l) ==
    [stale |-> h.stale \ {l},
     skipped |-> [h.skipped EXCEPT ![l] = process_every_n_frames - 1]]

NotRun == [state |-> "none", port |-> 0, raised |-> FALSE, tried_fallback |-> FALSE]

\* The object after __init__, main() aside
Constructed ==
    /\ cap = "None"
    /\ face_cascade = "None"
    /\ detection_running = FALSE
    /\ camera_lock = "free"
    /\ data_lock = "free"
    /\ current_emotion_data = InitReading
    /\ frame_skip_count = 0
    /\ last_successful_detection = 0
    /\ server = [primary |-> "none", fallback |-> "none", run |-> NotRun]
    /\ cam = [t \in Threads |-> FALSE]
    /\ out = NoOut
    /\ lpc = [l \in Loops |-> "none"]
    /\ loc = [l \in Loops |-> NoLoc]
    /\ probe = NoProbe
    /\ opened = FALSE
    /\ hist = NoHist

\* Requests reach the routes of the object; main() is not running.
Serving == pc = [t \in Threads |-> IF t = Main THEN "none" ELSE "idle"]

\* Two request threads at a time and one detection thread
Init ==
    /\ Constructed /\ Serving
    /\ conf = [clients |-> Handlers, slots |-> 1]

\* One request thread at a time and MaxLoops detection threads
InitLoops ==
    /\ Constructed /\ Serving
    /\ conf = [clients |-> {"h1"}, slots |-> MaxLoops]

\* process_frame and initialize_face_cascade called directly
InitFrame ==
    /\ Constructed /\ Serving
    /\ conf = [clients |-> {}, slots |-> 0]

\* The process lives until main() returns.
Alive == pc[Main] # "exited"

\* Thread t is about to execute the statement at p; a request thread begins
\* with the first statement of its handler.
At(t, p, first) == pc[t] = p \/ (first /\ t \in conf.clients /\ pc[t] = "idle")

\* Thread t has returned from its operation.
Back(t) == IF t = Main THEN "returned" ELSE "idle"


\* --------------------------------------------------- start_camera_detection
Live == {l \in Loops : lpc[l] # "none"}

FreeSlot == CHOOSE l \in Loops \ Live : \A k \in Loops \ Live : l <= k

\* Threads that opened the camera and have their detection thread to start
Starting == {t \in Threads : pc[t] \in {"st_run", "st_spawn"}}

\* start_camera_detection returns ok; /start answers 200 or 500
StartResponse(t, ok) ==
    [t |-> t, op |-> "start", ok |-> ok, code |-> IF ok THEN 200 ELSE 500]

\* Mutant: the check of the flag is left out.
AlreadyRunningNever(running) == FALSE

\* 'if self.detection_running: return True'
AlreadyRunning(running) == running

StartCheck(t) ==
    /\ Alive /\ At(t, "st_check", TRUE)
    /\ IF AlreadyRunning(detection_running)
       THEN /\ pc' = [pc EXCEPT ![t] = Back(t)]
            /\ out' = StartResponse(t, TRUE)
       ELSE /\ pc' = [pc EXCEPT ![t] = "st_cascade"]
            /\ out' = NoOut
    /\ UNCHANGED <<shared, server, cam, lpc, loc, probe, conf, opened, hist>>

\* initialize_face_cascade: the classifier file loads, loads empty, or
\* cv2.CascadeClassifier raises before the assignment.
CascadeOutcomes == {"loaded", "empty", "raise"}

InitializeFaceCascade(outcome, old) ==
    [cascade |-> IF outcome = "raise" THEN old ELSE outcome,
     ok |-> outcome = "loaded"]

StartCascade(t) ==
    /\ Alive /\ pc[t] = "st_cascade"
    /\ \E outcome \in CascadeOutcomes :
         LET r == InitializeFaceCascade(outcome, face_cascade) IN
         /\ face_cascade' = r.cascade
         /\ IF r.ok
            THEN /\ pc' = [pc EXCEPT ![t] = "st_lock"]
                 /\ out' = NoOut
            ELSE /\ pc' = [pc EXCEPT ![t] = Back(t)]
                 /\ out' = StartResponse(t, FALSE)
    /\ UNCHANGED <<cap, detection_running, camera_lock, data_lock,
                   current_emotion_data, frame_skip_count,
                   last_successful_detection, server, cam, lpc, loc, probe, conf, opened, hist>>

\* initialize_camera, first half: take camera_lock, release a previous handle
ReleasePrevious(c) == IF c # "None" THEN "closed" ELSE c

StartLock(t) ==
    /\ Alive /\ pc[t] = "st_lock"
    /\ camera_lock = "free"
    /\ camera_lock' = t
    /\ cap' = ReleasePrevious(cap)
    /\ pc' = [pc EXCEPT ![t] = "st_open"]
    /\ out' = NoOut
    /\ UNCHANGED <<face_cascade, detection_running, data_lock,
                   current_emotion_data, frame_skip_count,
                   last_successful_detection, server, cam, lpc, loc, probe, conf, opened, hist>>

\* initialize_camera, second half: cv2.VideoCapture(0) gives an opened
\* handle, a handle that is not opened, or raises before the assignment.
\* The camera opens while a slot is left for the thread this start spawns.
OpenOutcomes == {"ok", "fail", "raise"}

InitializeCamera(outcome, c) ==
    [cap |-> CASE outcome = "ok" -> "open"
               [] outcome = "fail" -> "closed"
               [] OTHER -> c,
     ok |-> outcome = "ok"]

StartOpen(t) ==
    /\ Alive /\ pc[t] = "st_open"
    /\ camera_lock = t
    /\ \E outcome \in OpenOutcomes :
         LET r == InitializeCamera(outcome, cap) IN
         /\ outcome = "ok" =>
              Cardinality(Live) + Cardinality(Starting) < conf.slots
         /\ cap' = r.cap
         /\ opened' = (opened \/ r.cap = "open")
         /\ IF r.ok
            THEN /\ pc' = [pc EXCEPT ![t] = "st_run"]
                 /\ out' = NoOut
            ELSE /\ pc' = [pc EXCEPT ![t] = Back(t)]
                 /\ out' = StartResponse(t, FALSE)
    /\ camera_lock' = "free"
    /\ UNCHANGED <<face_cascade, detection_running, data_lock,
                   current_emotion_data, frame_skip_count,
                   last_successful_detection, server, cam, lpc, loc, probe, conf,
                   hist>>

\* 'self.detection_running = True'
StartRun(t) ==
    /\ Alive /\ pc[t] = "st_run"
    /\ detection_running' = TRUE
    /\ pc' = [pc EXCEPT ![t] = "st_spawn"]
    /\ out' = NoOut
    /\ UNCHANGED <<cap, face_cascade, camera_lock, data_lock,
                   current_emotion_data, frame_skip_count,
                   last_successful_detection, server, cam, lpc, loc, probe, conf, opened, hist>>

\* 'detection_thread.start(); return True'
StartSpawn(t) ==
    /\ Alive /\ pc[t] = "st_spawn"
    /\ lpc' = [lpc EXCEPT ![FreeSlot] = "while"]
    /\ pc' = [pc EXCEPT ![t] = Back(t)]
    /\ out' = StartResponse(t, TRUE)
    /\ UNCHANGED <<shared, server, cam, loc, probe, conf, opened, hist>>

\* ---------------------------------------------------- stop_camera_detection
\* /stop answers 200 unless stop_camera_detection raised
StopResponse(t, raised) ==
    [t |-> t, op |-> "stop", code |-> IF raised THEN 500 ELSE 200]

\* 'self.detection_running = False'
StopFlag(t) ==
    /\ Alive /\ At(t, "sp_flag", TRUE)
    /\ detection_running' = FALSE
    /\ hist' = [hist EXCEPT !.stale = {l \in Loops : lpc[l] # "none"}]
    /\ pc' = [pc EXCEPT ![t] = "sp_lock"]
    /\ out' = NoOut
    /\ UNCHANGED <<cap, face_cascade, camera_lock, data_lock,
                   current_emotion_data, frame_skip_count,
                   last_successful_detection, server, cam, lpc, loc, probe, conf, opened>>

\* Mutant: stop_camera_detection leaves the handle as it is.
ReleaseCameraKept(c) == [cap |-> c, raised |-> FALSE]

\* Mutant: release() is called without the test for None.
ReleaseCameraUnchecked(c) == [cap |-> "None", raised |-> c = "None"]

\* 'with self.camera_lock: if self.cap is not None: release; self.cap = None'
ReleaseCamera(c) == [cap |-> "None", raised |-> FALSE]

StopRelease(t) ==
    /\ Alive /\ pc[t] = "sp_lock"
    /\ camera_lock = "free"
    /\ LET r == ReleaseCamera(cap) IN
         /\ cap' = r.cap
         /\ out' = StopResponse(t, r.raised)
    /\ pc' = [pc EXCEPT ![t] = Back(t)]
    /\ UNCHANGED <<face_cascade, detection_running, camera_lock, data_lock,
                   current_emotion_data, frame_skip_count,
                   last_successful_detection, server, cam, lpc, loc, probe, conf, opened, hist>>

\* --------------------------------------------------------------- get_status
\* 'self.cap is not None and self.cap.isOpened() if self.cap else False'
\* reads self.cap three times: the condition, the test, the call.
StatusTruth(t) ==
    /\ Alive /\ At(t, "gs_truth", TRUE) /\ t \in Handlers
    /\ IF cap = "None"
       THEN /\ cam' = [cam EXCEPT ![t] = FALSE]
            /\ pc' = [pc EXCEPT ![t] = "gs_rest"]
       ELSE /\ pc' = [pc EXCEPT ![t] = "gs_notnone"]
            /\ UNCHANGED cam
    /\ out' = NoOut
    /\ UNCHANGED <<shared, server, lpc, loc, probe, conf, opened, hist>>

StatusNotNone(t) ==
    /\ Alive /\ pc[t] = "gs_notnone"
    /\ IF cap = "None"
       THEN /\ cam' = [cam EXCEPT ![t] = FALSE]
            /\ pc' = [pc EXCEPT ![t] = "gs_rest"]
       ELSE /\ pc' = [pc EXCEPT ![t] = "gs_isopened"]
            /\ UNCHANGED cam
    /\ out' = NoOut
    /\ UNCHANGED <<shared, server, lpc, loc, probe, conf, opened, hist>>

\* self.cap.isOpened(): AttributeError on None, caught by the handler
IsOpened(c) == [raised |-> c = "None", value |-> c = "open"]

StatusIsOpened(t) ==
    /\ Alive /\ pc[t] = "gs_isopened"
    /\ LET r == IsOpened(cap) IN
       IF r.raised
       THEN /\ pc' = [pc EXCEPT ![t] = Back(t)]
            /\ out' = [t |-> t, op |-> "status", code |-> 500]
            /\ UNCHANGED cam
       ELSE /\ pc' = [pc EXCEPT ![t] = "gs_rest"]
            /\ cam' = [cam EXCEPT ![t] = r.value]
            /\ out' = NoOut
    /\ UNCHANGED <<shared, server, lpc, loc, probe, conf, opened, hist>>

StatusBody(t, running, connected, last) ==
    [t |-> t, op |-> "status", code |-> 200, detection_running |-> running,
     camera_connected |-> connected, last_detection |-> last]

StatusRest(t) ==
    /\ Alive /\ pc[t] = "gs_rest"
    /\ out' = StatusBody(t, detection_running, cam[t], last_successful_detection)
    /\ cam' = [cam EXCEPT ![t] = FALSE]
    /\ pc' = [pc EXCEPT ![t] = Back(t)]
    /\ UNCHANGED <<shared, server, lpc, loc, probe, conf, opened, hist>>

\* -------------------------------------------------------------- get_emotion
\* 'with self.data_lock:'
EmotionLock(t) ==
    /\ Alive /\ At(t, "ge_lock", TRUE) /\ t \in Handlers
    /\ data_lock = "free"
    /\ data_lock' = t
    /\ pc' = [pc EXCEPT ![t] = "ge_read"]
    /\ out' = NoOut
    /\ UNCHANGED <<cap, face_cascade, detection_running, camera_lock,
                   current_emotion_data, frame_skip_count,
                   last_successful_detection, server, cam, lpc, loc, probe, conf, opened, hist>>

\* 'return jsonify(self.current_emotion_data)'
Jsonify(t, data) == [t |-> t, op |-> "emotion", code |-> 200, body |-> data]

EmotionRead(t) ==
    /\ Alive /\ pc[t] = "ge_read"
    /\ data_lock = t
    /\ out' = Jsonify(t, current_emotion_data)
    /\ data_lock' = "free"
    /\ pc' = [pc EXCEPT ![t] = Back(t)]
    /\ UNCHANGED <<cap, face_cascade, detection_running, camera_lock,
                   current_emotion_data, frame_skip_count,
                   last_successful_detection, server, cam, lpc, loc, probe, conf, opened, hist>>

\* ----------------------------------------------------------- detection_loop
Holder(l) == "loop" \o ToString(l)

\* 'while self.detection_running:'
LoopWhile(l) ==
    /\ Alive /\ lpc[l] = "while"
    /\ lpc' = [lpc EXCEPT ![l] = IF detection_running THEN "inc_load" ELSE "none"]
    /\ hist' = IF detection_running THEN hist ELSE Ended(hist, l)
    /\ out' = NoOut
    /\ UNCHANGED <<shared, server, pc, cam, loc, probe, conf, opened>>

\* 'self.frame_skip_count += 1' loads the attribute, then stores it; the
\* counter is followed up to MaxCount.
LoopIncLoad(l) ==
    /\ Alive /\ lpc[l] = "inc_load"
    /\ frame_skip_count < MaxCount
    /\ loc' = [loc EXCEPT ![l].tmp = frame_skip_count]
    /\ lpc' = [lpc EXCEPT ![l] = "inc_store"]
    /\ out' = NoOut
    /\ UNCHANGED <<shared, server, pc, cam, probe, conf, opened, hist>>

LoopIncStore(l) ==
    /\ Alive /\ lpc[l] = "inc_store"
    /\ frame_skip_count' = loc[l].tmp + 1
    /\ loc' = [loc EXCEPT ![l].tmp = 0]
    /\ lpc' = [lpc EXCEPT ![l] = "throttle"]
    /\ out' = NoOut
    /\ UNCHANGED <<cap, face_cascade, detection_running, camera_lock, data_lock,
                   current_emotion_data, last_successful_detection,
                   server, pc, cam, probe, conf, opened, hist>>

\* 'if self.frame_skip_count < self.process_every_n_frames: sleep; continue'
Skip(count) == count < process_every_n_frames

LoopThrottle(l) ==
    /\ Alive /\ lpc[l] = "throttle"
    /\ lpc' = [lpc EXCEPT ![l] = IF Skip(frame_skip_count) THEN "while" ELSE "reset"]
    /\ hist' = [hist EXCEPT !.skipped[l] =
                   IF Skip(frame_skip_count)
                   THEN IF @ < process_every_n_frames - 1 THEN @ + 1 ELSE @
                   ELSE 0]
    /\ out' = NoOut
    /\ UNCHANGED <<shared, server, pc, cam, loc, probe, conf, opened>>

\* 'self.frame_skip_count = 0'
LoopReset(l) ==
    /\ Alive /\ lpc[l] = "reset"
    /\ frame_skip_count' = 0
    /\ lpc' = [lpc EXCEPT ![l] = "lock"]
    /\ out' = NoOut
    /\ UNCHANGED <<cap, face_cascade, detection_running, camera_lock, data_lock,
                   current_emotion_data, last_successful_detection,
                   server, pc, cam, loc, probe, conf, opened, hist>>

\* 'with self.camera_lock:'
LoopLock(l) ==
    /\ Alive /\ lpc[l] = "lock"
    /\ camera_lock = "free"
    /\ camera_lock' = Holder(l)
    /\ lpc' = [lpc EXCEPT ![l] = "read"]
    /\ out' = NoOut
    /\ UNCHANGED <<cap, face_cascade, detection_running, data_lock,
                   current_emotion_data, frame_skip_count,
                   last_successful_detection, server, pc, cam, loc, probe, conf, opened, hist>>

\* Mutant: the loop reads without the test of the handle.
CameraUnavailableNever(c) == FALSE

\* 'if self.cap is None or not self.cap.isOpened(): break'
CameraUnavailable(c) == c = "None" \/ c # "open"

\* The test under camera_lock: 'break' leaves the 'with' and the loop
LoopRead(l) ==
    /\ Alive /\ lpc[l] = "read"
    /\ camera_lock = Holder(l)
    /\ IF CameraUnavailable(cap)
       THEN /\ lpc' = [lpc EXCEPT ![l] = "none"]
            /\ camera_lock' = "free"
            /\ hist' = Ended(hist, l)
       ELSE /\ lpc' = [lpc EXCEPT ![l] = "capture"]
            /\ UNCHANGED <<camera_lock, hist>>
    /\ out' = NoOut
    /\ UNCHANGED <<cap, face_cascade, detection_running, data_lock,
                   current_emotion_data, frame_skip_count,
                   last_successful_detection, server, pc, cam, loc, probe, conf, opened>>

\* self.cap.read() gives a frame, gives ret False, or raises
ReadOutcomes == {"frame", "noframe", "raise"}

\* Mutant: the frame is processed whatever read() gave.
AfterReadAlways(outcome) == "process"

\* 'if not ret: continue'; an exception is logged and the loop goes on
AfterRead(outcome) == IF outcome = "frame" THEN "process" ELSE "while"

\* What 'ret, frame = self.cap.read()' gave to thread l
ReadResult(l, outcome) == [op |-> "read", l |-> l, outcome |-> outcome]

\* 'ret, frame = self.cap.read()', still under camera_lock; the 'with' ends
\* when the call has returned or raised.
LoopCapture(l) ==
    /\ Alive /\ lpc[l] = "capture"
    /\ camera_lock = Holder(l)
    /\ \E outcome \in ReadOutcomes :
         /\ lpc' = [lpc EXCEPT ![l] = AfterRead(outcome)]
         /\ out' = ReadResult(l, outcome)
    /\ camera_lock' = "free"
    /\ UNCHANGED <<cap, face_cascade, detection_running, data_lock,
                   current_emotion_data, frame_skip_count,
                   last_successful_detection, server, pc, cam, loc, probe, conf,
                   opened, hist>>

\* Successful detections not yet recorded in last_successful_detection
Marking == {l \in Loops : loc[l].pending.emotion \in Labels \/ lpc[l] = "mark"}

\* What the libraries may do with the frame: detectMultiScale raises, with a
\* text, on a cascade that is not loaded; analyze matters only when it is
\* called; successes are counted up to MaxDetections.
Possible(d, c, successes) ==
    /\ face_cascade # "loaded" => (d.raised /\ d.text # "")
    /\ (d.raised \/ Len(d.faces) = 0) => (c.kind = "raise" /\ c.text = "")
    /\ InputKind(d, c) = "ok" => successes < MaxDetections

\* process_frame up to the assignment of the reading
LoopProcess(l) ==
    /\ Alive /\ lpc[l] = "process"
    /\ \E d \in DetectOutcomes, c \in ClassifyOutcomes :
         /\ Possible(d, c, last_successful_detection + Cardinality(Marking))
         /\ LET r == ProcessFrame(d, c) IN
            /\ lpc' = [lpc EXCEPT ![l] =
                         IF r.reading = NoPending THEN "skip" ELSE "publish"]
            /\ loc' = [loc EXCEPT ![l].input = InputKind(d, c),
                                  ![l].pending = r.reading]
    /\ out' = NoOut
    /\ UNCHANGED <<shared, server, pc, cam, probe, conf, opened, hist>>

\* process_frame returns without an assignment
LoopSkip(l) ==
    /\ Alive /\ lpc[l] = "skip"
    /\ lpc' = [lpc EXCEPT ![l] = "while"]
    /\ loc' = [loc EXCEPT ![l] = NoLoc]
    /\ out' = NoOut
    /\ UNCHANGED <<shared, server, pc, cam, probe, conf, opened, hist>>

\* 'with self.data_lock: self.current_emotion_data = {...}'
LoopPublish(l) ==
    /\ Alive /\ lpc[l] = "publish"
    /\ data_lock = "free"
    /\ current_emotion_data' = Replace(current_emotion_data, loc[l].pending)
    /\ lpc' = [lpc EXCEPT ![l] =
                 IF loc[l].pending.emotion \in Labels THEN "mark" ELSE "while"]
    /\ loc' = [loc EXCEPT ![l] = NoLoc]
    /\ out' = NoOut
    /\ UNCHANGED <<cap, face_cascade, detection_running, camera_lock, data_lock,
                   frame_skip_count, last_successful_detection,
                   server, pc, cam, probe, conf, opened, hist>>

\* 'self.last_successful_detection = time.time()'
LoopMark(l) ==
    /\ Alive /\ lpc[l] = "mark"
    /\ last_successful_detection' = last_successful_detection + 1
    /\ lpc' = [lpc EXCEPT ![l] = "while"]
    /\ out' = NoOut
    /\ UNCHANGED <<cap, face_cascade, detection_running, camera_lock, data_lock,
                   current_emotion_data, frame_skip_count,
                   server, pc, cam, loc, probe, conf, opened, hist>>


\* --------------------------------------------------------- main, run_server
\* app.run binds and serves, or raises: OSError "Address already in use",
\* another OSError, another Exception, or a BaseException such as SystemExit.
BindOutcomes == {"ok", "in_use", "oserror", "error", "exit"}

\* Mutant: a failure on the fallback port is logged and not raised again.
RunServerSwallow(p, f) ==
    IF p = "ok"
    THEN [state |-> "listening", port |-> port, raised |-> FALSE,
          tried_fallback |-> FALSE]
    ELSE IF p = "in_use"
         THEN IF f = "ok"
              THEN [state |-> "listening", port |-> fallback_port,
                    raised |-> FALSE, tried_fallback |-> TRUE]
              ELSE [state |-> "failed", port |-> 0, raised |-> FALSE,
                    tried_fallback |-> TRUE]
         ELSE [state |-> "failed", port |-> 0, raised |-> TRUE,
               tried_fallback |-> FALSE]

\* run_server, given what app.run meets on the port and on the fallback port
RunServer(p, f) ==
    IF p = "ok"
    THEN [state |-> "listening", port |-> port, raised |-> FALSE,
          tried_fallback |-> FALSE]
    ELSE IF p = "in_use"
         THEN IF f = "ok"
              THEN [state |-> "listening", port |-> fallback_port,
                    raised |-> FALSE, tried_fallback |-> TRUE]
              ELSE [state |-> "failed", port |-> 0, raised |-> TRUE,
                    tried_fallback |-> TRUE]
         ELSE [state |-> "failed", port |-> 0, raised |-> TRUE,
               tried_fallback |-> FALSE]

\* main: start_camera_detection has returned; 'server.run_server()'.  When
\* it raises, main goes on to shutdown() in its 'finally'.
MainRunServer ==
    /\ pc[Main] = "returned" /\ server.run.state = "none"
    /\ \E p \in BindOutcomes, f \in BindOutcomes :
         /\ p # "in_use" => f = "ok"
         /\ LET r == RunServer(p, f) IN
            /\ server' = [primary |-> p,
                          fallback |-> IF p = "in_use" THEN f ELSE "none",
                          run |-> r]
            /\ pc' = [pc EXCEPT ![Main] =
                        IF r.state = "listening" THEN "serving" ELSE "sp_flag"]
    /\ out' = NoOut
    /\ UNCHANGED <<shared, cam, lpc, loc, probe, conf, opened, hist>>

\* shutdown() has returned: main returns and the process ends
MainExit ==
    /\ pc[Main] = "returned" /\ server.run.state # "none"
    /\ pc' = [pc EXCEPT ![Main] = "exited"]
    /\ out' = NoOut
    /\ UNCHANGED <<shared, server, cam, lpc, loc, probe, conf, opened, hist>>

\* --------------------------------------------------- calls one after another
Quiet == /\ \A t \in Threads : pc[t] \in {"idle", "none"}
         /\ \A l \in Loops : lpc[l] = "none"

\* initialize_face_cascade()
CascadeCall ==
    /\ Quiet
    /\ \E outcome \in CascadeOutcomes :
         LET r == InitializeFaceCascade(outcome, face_cascade) IN
         /\ face_cascade' = r.cascade
         /\ probe' = [call |-> "initialize_face_cascade", ok |-> r.ok]
    /\ out' = NoOut
    /\ UNCHANGED <<cap, detection_running, camera_lock, data_lock,
                   current_emotion_data, frame_skip_count,
                   last_successful_detection, server, pc, cam, lpc, loc, conf, opened, hist>>

\* process_frame(frame)
ProcessFrameCall ==
    /\ Quiet
    /\ \E d \in DetectOutcomes, c \in ClassifyOutcomes :
         /\ Possible(d, c, last_successful_detection)
         /\ LET r == ProcessFrame(d, c) IN
            /\ current_emotion_data' =
                 IF r.reading = NoPending THEN current_emotion_data
                 ELSE Replace(current_emotion_data, r.reading)
            /\ last_successful_detection' =
                 IF r.reading.emotion \in Labels
                 THEN last_successful_detection + 1
                 ELSE last_successful_detection
            /\ probe' = [call |-> "process_frame", input |-> InputKind(d, c),
                         faces |-> d.faces, result |-> c.result,
                         called |-> r.called, region |-> r.region,
                         before |-> current_emotion_data]
    /\ out' = NoOut
    /\ UNCHANGED <<cap, face_cascade, detection_running, camera_lock, data_lock,
                   frame_skip_count, server, pc, cam, lpc, loc, conf, opened, hist>>

\* ------------------------------------------------------------ specifications
Step(T) ==
    \/ \E t \in T : StartCheck(t)
    \/ \E t \in T : StartCascade(t)
    \/ \E t \in T : StartLock(t)
    \/ \E t \in T : StartOpen(t)
    \/ \E t \in T : StartRun(t)
    \/ \E t \in T : StartSpawn(t)
    \/ \E t \in T : StopFlag(t)
    \/ \E t \in T : StopRelease(t)
    \/ \E l \in Loops : LoopWhile(l)
    \/ \E l \in Loops : LoopIncLoad(l)
    \/ \E l \in Loops : LoopIncStore(l)
    \/ \E l \in Loops : LoopThrottle(l)
    \/ \E l \in Loops : LoopReset(l)
    \/ \E l \in Loops : LoopLock(l)
    \/ \E l \in Loops : LoopRead(l)
    \/ \E l \in Loops : LoopCapture(l)
    \/ \E l \in Loops : LoopProcess(l)
    \/ \E l \in Loops : LoopSkip(l)
    \/ \E l \in Loops : LoopPublish(l)
    \/ \E l \in Loops : LoopMark(l)

Next ==
    \/ Step(Handlers)
    \/ \E t \in Handlers : StatusTruth(t)
    \/ \E t \in Handlers : StatusNotNone(t)
    \/ \E t \in Handlers : StatusIsOpened(t)
    \/ \E t \in Handlers : StatusRest(t)
    \/ \E t \in Handlers : EmotionLock(t)
    \/ \E t \in Handlers : EmotionRead(t)

Spec == Init /\ [][Next]_vars

SpecLoops == InitLoops /\ [][Next]_vars

\* main() has constructed the object and calls start_camera_detection.
InitMain ==
    /\ Constructed
    /\ pc = [t \in Threads |-> IF t = Main THEN "st_check" ELSE "idle"]
    /\ conf = [clients |-> {}, slots |-> 1]

NextMain ==
    \/ Step({Main})
    \/ MainRunServer
    \/ MainExit

SpecMain == InitMain /\ [][NextMain]_vars

\* One request thread and one detection thread
InitHang ==
    /\ Constructed /\ Serving
    /\ conf = [clients |-> {"h1"}, slots |-> 1]

\* The steps of request thread t
Request(t) ==
    \/ StartCheck(t) \/ StartCascade(t) \/ StartLock(t) \/ StartOpen(t)
    \/ StartRun(t) \/ StartSpawn(t) \/ StopFlag(t) \/ StopRelease(t)
    \/ StatusTruth(t) \/ StatusNotNone(t) \/ StatusIsOpened(t) \/ StatusRest(t)
    \/ EmotionLock(t) \/ EmotionRead(t)

\* A request thread that can run does run (threaded=True: one thread per
\* request); nothing is assumed of the detection thread, whose read() may
\* never return.
SpecHang == InitHang /\ [][Next]_vars /\ \A t \in Handlers : WF_vars(Request(t))

NextFrame ==
    \/ CascadeCall
    \/ ProcessFrameCall

SpecFrame == InitFrame /\ [][NextFrame]_vars


\* ------------------------------------------------------------------- claims
\* Thread t takes the first step of start_camera_detection.
BeginsStart(t) ==
    /\ pc[t] = "idle"
    /\ \/ pc'[t] = "st_cascade"
       \/ (pc'[t] = "idle" /\ out'.op = "start" /\ out'.t = t)

\* C1: a start() that finds the engine Running returns success at once (200)
\* and leaves the flag, the camera handle, the cascade, the lock and the
\* detection threads as they are: no second open, no second loop.
C1_StartWhileRunning ==
    [][\A t \in Handlers :
         (BeginsStart(t) /\ detection_running)
            => /\ out' = [t |-> t, op |-> "start", ok |-> TRUE, code |-> 200]
               /\ pc'[t] = "idle"
               /\ detection_running'
               /\ cap' = cap
               /\ face_cascade' = face_cascade
               /\ camera_lock' = camera_lock
               /\ lpc' = lpc]_vars

\* A start() has just returned 200 while the loop is in the middle of an
\* iteration on the open camera.
C1_Witness ==
    /\ out.op = "start" /\ out.code = 200
    /\ detection_running /\ cap = "open"
    /\ \E l \in Loops : lpc[l] = "process"

\* C2: a stop() in the Idle state raises nothing and answers 200; the flag
\* stays false, the handle is absent afterwards, the reading is untouched.
C2_StopWhileIdle ==
    [][\A t \in Handlers :
         /\ (pc[t] = "idle" /\ pc'[t] = "sp_lock" /\ ~detection_running)
               => /\ ~detection_running'
                  /\ cap' = cap
                  /\ current_emotion_data' = current_emotion_data
                  /\ out' = NoOut
         /\ (pc[t] = "sp_lock" /\ pc'[t] # "sp_lock")
               => /\ out' = [t |-> t, op |-> "stop", code |-> 200]
                  /\ pc'[t] = "idle"
                  /\ cap' = "None"
                  /\ detection_running' = detection_running
                  /\ current_emotion_data' = current_emotion_data]_vars

\* A stop() has answered 200 on an object that was never started.
C2_Witness ==
    /\ out.op = "stop" /\ out.code = 200
    /\ face_cascade = "None" /\ ~detection_running /\ cap = "None"
    /\ current_emotion_data = InitReading

\* C3, as stated: a start() whose camera does not open answers 500, leaves
\* the flag as it is and spawns no loop; and as long as no start() has opened
\* the camera every get_status answers 200 with camera_connected false.
C3_Original ==
    [][/\ \A t \in Handlers :
            (pc[t] = "st_open" /\ pc'[t] # "st_open" /\ cap' # "open")
               => /\ out' = [t |-> t, op |-> "start", ok |-> FALSE, code |-> 500]
                  /\ pc'[t] = "idle"
                  /\ detection_running' = detection_running
                  /\ lpc' = lpc
       /\ (out'.op = "status" /\ ~opened)
             => (out'.code = 200 /\ ~out'.camera_connected)]_vars

\* Readings one assignment can produce.
WholeReadings ==
    {InitReading, NoFaceReading}
        \cup {[emotion |-> "error", confidence |-> 0, faces_detected |-> 0, error |-> e] :
                e \in ExceptionTexts}
        \cup {[emotion |-> r.dominant_emotion,
               confidence |-> r.emotion[r.dominant_emotion].item,
               faces_detected |-> n,
               emotion_scores |-> [l \in Labels |-> r.emotion[l].item]] :
                r \in Results, n \in 1..MaxFaces}

\* C4: get_emotion answers with the reading as one assignment left it, the
\* one current at its read; no assignment happens while a reader holds
\* data_lock.
C4_WholeReading ==
    /\ [](out.op = "emotion" => (out.code = 200 /\ out.body \in WholeReadings))
    /\ [][/\ \A t \in Handlers :
               (pc[t] = "ge_read" /\ pc'[t] # "ge_read")
                  => out' = [t |-> t, op |-> "emotion", code |-> 200,
                             body |-> current_emotion_data]
          /\ data_lock # "free" => current_emotion_data' = current_emotion_data]_vars

\* get_emotion has answered with a classifier reading while the loop holds
\* another reading to assign.
C4_Witness ==
    /\ out.op = "emotion" /\ out.body.emotion \in Labels
    /\ \E l \in Loops : lpc[l] = "publish" /\ loc[l].pending # out.body

\* C5, as stated: faces_detected is 0 exactly when the emotion is no_face.
C5_Original ==
    (current_emotion_data.faces_detected = 0)
        <=> (current_emotion_data.emotion = "no_face")

\* C5, amended: faces_detected is 0 exactly when the emotion is one of the
\* sentinels no_face, error, unknown.
C5_FaceCount ==
    (current_emotion_data.faces_detected = 0)
        <=> (current_emotion_data.emotion \in {"no_face", "error", "unknown"})

\* The loop has assigned an error reading and holds a two-face reading.
C5_Witness ==
    /\ current_emotion_data.emotion = "error"
    /\ \E l \in Loops : lpc[l] = "publish" /\ loc[l].pending.faces_detected = 2

\* C6: emotion_scores only with a classifier label, error only with the
\* emotion error.
C6_OptionalFields ==
    /\ "emotion_scores" \in DOMAIN current_emotion_data
          => current_emotion_data.emotion \in Labels
    /\ "error" \in DOMAIN current_emotion_data
          => current_emotion_data.emotion = "error"

\* The reading carries an error while the loop holds one with scores.
C6_Witness ==
    /\ "error" \in DOMAIN current_emotion_data
    /\ \E l \in Loops :
         lpc[l] = "publish" /\ "emotion_scores" \in DOMAIN loc[l].pending

\* C7: process_frame on a frame in which detectMultiScale finds nothing
\* assigns no_face, 0 faces, confidence 0, no scores, and does not call
\* DeepFace.analyze.
C7_NoFace ==
    (probe.call = "process_frame" /\ probe.input = "no_faces")
        => /\ current_emotion_data
                = [emotion |-> "no_face", confidence |-> 0, faces_detected |-> 0]
           /\ ~probe.called

\* Such a call has replaced a classifier reading.
C7_Witness ==
    /\ probe.call = "process_frame" /\ probe.input = "no_faces"
    /\ probe.before.emotion \in Labels

\* C8, as stated: an iteration whose DeepFace.analyze raised goes on to
\* assign an error reading with confidence 0 and a non-empty message, and
\* back to the loop condition; a loop ends only on a false flag or an
\* unavailable camera.
C8_Original ==
    [][\A l \in Loops :
         /\ (lpc[l] = "process" /\ lpc'[l] # "process" /\ loc'[l].input = "raise")
               => /\ lpc'[l] = "publish"
                  /\ loc'[l].pending.emotion = "error"
                  /\ loc'[l].pending.confidence = 0
                  /\ loc'[l].pending.error # ""
         /\ (lpc[l] = "publish" /\ lpc'[l] # "publish" /\ loc[l].input = "raise")
               => /\ current_emotion_data' = loc[l].pending
                  /\ lpc'[l] = "while"
         /\ (lpc[l] # "none" /\ lpc'[l] = "none")
               => \/ lpc[l] = "while" /\ ~detection_running
                  \/ lpc[l] = "read" /\ cap # "open"]_vars

\* C9: when faces are found and analyze succeeds, the region analysed is
\* the first one of largest area, and the reading assigned has the dominant
\* label, that label's score, the number of regions and all the scores.
C9_LargestFace ==
    (probe.call = "process_frame" /\ probe.input = "ok")
        => /\ probe.called
           /\ \E j \in 1..Len(probe.faces) :
                /\ probe.faces[j] = probe.region
                /\ \A i \in 1..Len(probe.faces) :
                     /\ Area(probe.faces[i]) <= Area(probe.region)
                     /\ i < j => Area(probe.faces[i]) < Area(probe.region)
           /\ current_emotion_data
                = [emotion |-> probe.result.dominant_emotion,
                   confidence |->
                     probe.result.emotion[probe.result.dominant_emotion].item,
                   faces_detected |-> Len(probe.faces),
                   emotion_scores |->
                     [l \in Labels |-> probe.result.emotion[l].item]]

\* Two different regions of equal area were found and analyze succeeded.
C9_Witness ==
    /\ probe.call = "process_frame" /\ probe.input = "ok"
    /\ Len(probe.faces) = 2
    /\ probe.faces[1] # probe.faces[2]
    /\ Area(probe.faces[1]) = Area(probe.faces[2])

\* C10: with the port in use the server listens on the fallback port; with
\* both in use run_server raises; any other failure on the port is raised
\* without a try on the fallback port.
C10_PortFallback ==
    /\ (server.primary = "in_use" /\ server.fallback = "ok")
          => /\ server.run.state = "listening"
             /\ server.run.port = fallback_port
             /\ ~server.run.raised
    /\ (server.primary = "in_use" /\ server.fallback \notin {"ok", "none"})
          => /\ server.run.raised
             /\ server.run.state # "listening"
    /\ server.primary \in {"oserror", "error", "exit"}
          => /\ server.run.raised
             /\ ~server.run.tried_fallback
             /\ server.run.state # "listening"
    /\ server.primary = "ok"
          => /\ server.run.state = "listening"
             /\ server.run.port = port

\* Both ports were in use and run_server has raised.
C10_Witness ==
    /\ server.primary = "in_use" /\ server.fallback = "in_use"
    /\ server.run.raised
    /\ pc[Main] = "exited"

\* C11, as stated: a detection thread that finds the camera unavailable
\* ('break' at the test under camera_lock) leaves the engine Idle:
\* detection_running is false once it has exited.
C11_Original ==
    [][\A l \in Loops :
         (lpc[l] = "read" /\ lpc'[l] = "none") => ~detection_running']_vars

\* C12, as stated: at any time at most one detection thread is executing.
C12_Original == Cardinality(Live) <= 1

\* C13, as stated: a detection thread that was alive when a stop() cleared
\* the flag begins no new iteration: it does not pass 'while
\* self.detection_running' again (and so ends at the end of its iteration).
C13_Original ==
    [][\A l \in hist.stale :
         ~(lpc[l] = "while" /\ lpc'[l] = "inc_load")]_vars

\* C14, as stated: whenever detection_running is false, no open camera is
\* held.
C14_Original == ~detection_running => cap # "open"

\* Thread t is inside start_camera_detection or stop_camera_detection.
InCall(t) ==
    pc[t] \in {"st_check", "st_cascade", "st_lock", "st_open", "st_run",
               "st_spawn", "sp_flag", "sp_lock"}

\* C14: whenever detection_running is false and no start() or stop() call is
\* in progress, no open camera is held: the handle is None or not opened.
C14_StoppedClosed ==
    (~detection_running /\ \A t \in Threads : ~InCall(t)) => cap # "open"

\* A camera was opened, a stop() has returned, and the engine rests Stopped.
C14_Witness ==
    /\ opened /\ ~detection_running /\ cap = "None"
    /\ out.op = "stop"
    /\ \A t \in Threads : ~InCall(t)

\* C15: the detection thread calls read() only on an opened handle: from its
\* test of the handle to the return of read() it holds camera_lock and no
\* thread releases or replaces the handle, and a thread that finds the handle
\* None or closed ends without a read.
C15_NoReadOnReleased ==
    [][\A l \in Loops :
         /\ lpc[l] \in {"read", "capture"}
               => (camera_lock = Holder(l) /\ cap' = cap)
         /\ lpc'[l] = "capture" => cap' = "open"
         /\ (lpc[l] = "read" /\ cap # "open" /\ lpc'[l] # "read")
               => lpc'[l] = "none"]_vars

\* A stop() waits for camera_lock while a detection thread is inside read().
C15_Witness ==
    \E l \in Loops, t \in Handlers :
        /\ lpc[l] = "capture" /\ camera_lock = Holder(l)
        /\ pc[t] = "sp_lock"

\* C16, as stated: when a read() of the detection thread never returns,
\* every request that has begun still completes.
C16_Original ==
    (<>[](\E l \in Loops : lpc[l] = "capture"))
        => \A t \in Handlers : [](pc[t] # "idle" => <>(pc[t] = "idle"))

\* C17, as stated: every iteration that ends after a frame was captured has
\* replaced the reading, by a no_face, an error or a label reading, whatever
\* detectMultiScale and DeepFace.analyze gave.
C17_Original ==
    [][\A l \in Loops :
         (lpc[l] \in {"process", "skip", "publish"}
            /\ lpc'[l] \notin {"process", "skip", "publish"})
           => /\ lpc[l] = "publish"
              /\ loc[l].pending.emotion \in {"no_face", "error"} \cup Labels
              /\ current_emotion_data' = loc[l].pending]_vars

\* C18: after a read() that gives no frame on an opened camera the detection
\* thread goes back to its loop condition with nothing to publish, and no
\* step of the iteration, from the loop condition to the read(), changes the
\* reading, the flag, the handle or last_successful_detection.
C18_ReadFailure ==
    [][\A l \in Loops :
         /\ (lpc[l] = "capture" /\ out'.op = "read" /\ out'.l = l
               /\ out'.outcome = "noframe")
              => (lpc'[l] = "while" /\ loc'[l] = NoLoc)
         /\ (lpc[l] \in {"while", "inc_load", "inc_store", "throttle", "reset",
                          "lock", "read", "capture"} /\ lpc'[l] # lpc[l])
              => UNCHANGED <<current_emotion_data, detection_running, cap,
                             last_successful_detection>>]_vars

\* A read() has just given no frame while the engine runs on an opened
\* camera and a published reading is current.
C18_Witness ==
    /\ out.op = "read" /\ out.outcome = "noframe"
    /\ lpc[out.l] = "while"
    /\ detection_running /\ cap = "open"
    /\ current_emotion_data.emotion \in Labels

\* C19, as stated: between two iterations in which a detection thread goes
\* on to capture a frame, process_every_n_frames - 1 of its iterations have
\* been skipped: it captures on at most one of any process_every_n_frames
\* iterations in a row.
C19_Original ==
    [][\A l \in Loops :
         (lpc[l] = "throttle" /\ lpc'[l] = "reset")
           => hist.skipped[l] = process_every_n_frames - 1]_vars

\* C20, as stated: get_status never calls isOpened() on a handle that is
\* None: its third read of self.cap finds a handle, and the request goes on
\* to the normal answer, never to the 500 answer.
C20_Original ==
    [][\A t \in Handlers :
         (pc[t] = "gs_isopened" /\ pc'[t] # "gs_isopened")
           => (cap # "None" /\ pc'[t] = "gs_rest")]_vars

====
